---- MODULE Spec2Model ----
(***************************************************************************)
(* EcoScan view controller (App component) and classification client      *)
(* (analyzeWaste).  One action per event-loop task: a user click handler, *)
(* the settling of a getUserMedia promise, a FileReader loadend, the      *)
(* settling of the generateContent call, and the continuation of          *)
(* processAnalysis after its await.  React commits the render at the end  *)
(* of each task, so the rendered tree is a function of the variables.     *)
(***************************************************************************)
EXTENDS Naturals, Sequences, FiniteSets

\* ---- bounds of the model ----
MaxCam == 2        \* getUserMedia calls pending at once
MaxStreams == 1    \* media streams granted in one run
MaxReads == 2      \* FileReader reads pending at once
MaxReq == 2        \* analyzeWaste calls outstanding at once

VARIABLES
  state,       \* useState<AppState>
  image,       \* useState<string | null>
  analysis,    \* useState<WasteAnalysis | null>
  error,       \* useState<string | null>
  srcObject,   \* videoRef.current.srcObject of the mounted <video>, NoStream if none
  streams,     \* streams granted by getUserMedia: "live" until their tracks are stopped
  camPending,  \* startCamera calls suspended at await getUserMedia
  reads,       \* FileReaders that have been started and have not fired loadend
  requests     \* analyzeWaste calls whose processAnalysis has not resumed

vars == <<state, image, analysis, error, srcObject, streams, camPending, reads, requests>>

\* ---- values ----
AppState == {"idle", "capturing", "analyzing", "result", "error"}
Null == "null"                       \* JS null for string | null
NoStream == 0
Files == {"file1"}                   \* the file the user picks
FrameUrl == "data:image/jpeg;frame"  \* toDataURL of a canvas holding a video frame
EmptyCanvasUrl == "data:,"           \* toDataURL of a 0x0 canvas (videoWidth = 0)
CameraError == "Unable to access camera. Please check permissions."
AnalysisError == "AI analysis failed. Please try a different photo."

DataUrl(file) == IF file = "file1" THEN "data:image/png;file1" ELSE "data:image/png;file2"

\* interface WasteAnalysis: the paths a value of that shape has
WasteAnalysisShape ==
  {"mainMaterial", "confidences.glass", "confidences.plastic", "confidences.paper",
   "confidences.cardboard", "confidences.other", "recyclingTip", "isRecyclable"}

JSNull == [kind |-> "null", fields |-> {}, of |-> Null]
JSObject(fs) == [kind |-> "object", fields |-> fs, of |-> Null]
HasShape(v) == v.kind = "object" /\ WasteAnalysisShape \subseteq v.fields
Truthy(s) == s # Null /\ s # ""
TruthyValue(v) == v.kind # "null"

RemoveAt(s, i) == SubSeq(s, 1, i - 1) \o SubSeq(s, i + 1, Len(s))

\* ---- the classification client ----
NoText == "<undefined>"
FullText == "{mainMaterial,confidences:{glass,plastic,paper,cardboard,other},recyclingTip,isRecyclable}"
PartialText == "{mainMaterial,recyclingTip}"
Texts == {NoText, "", "not json", "null", PartialText, FullText}
Responses == [net : {"ok", "fail"}, text : Texts]

\* JSON.parse: throws on text that is not JSON, else returns the value
ParseJSON(text) ==
  CASE text = "null"      -> [ok |-> TRUE, value |-> JSNull]
    [] text = PartialText -> [ok |-> TRUE, value |-> JSObject({"mainMaterial", "recyclingTip"})]
    [] text = FullText    -> [ok |-> TRUE, value |-> JSObject(WasteAnalysisShape)]
    [] OTHER              -> [ok |-> FALSE, value |-> JSNull]

Rejected == [outcome |-> "rejected", value |-> JSNull]
Fulfilled(v) == [outcome |-> "fulfilled", value |-> v]

\* analyzeWaste(base64Image) against a service that answers resp
AnalyzeWaste(base64Image, resp) ==
  IF base64Image = Null THEN Rejected            \* null.split(',') throws inside the try
  ELSE IF resp.net = "fail" THEN Rejected        \* generateContent rejects
  ELSE IF resp.text = NoText \/ resp.text = "" THEN Rejected   \* if (!text) throw
  ELSE IF ~ParseJSON(resp.text).ok THEN Rejected \* JSON.parse throws
  ELSE Fulfilled(ParseJSON(resp.text).value)     \* ... as WasteAnalysis, unchecked

\* ---- the rendered tree ----
IdleVisible == state = "idle"
ViewfinderVisible == state = "capturing"
ImagePanelVisible == state \in {"analyzing", "result", "error"} /\ Truthy(image)
OverlayVisible == ImagePanelVisible /\ state = "analyzing"
ResultCardVisible == ImagePanelVisible /\ state = "result" /\ TruthyValue(analysis)
ErrorCardVisible == ImagePanelVisible /\ state = "error"
ResetOffered == ViewfinderVisible \/ ResultCardVisible \/ ErrorCardVisible

\* a continuation of processAnalysis is queued as a microtask: it runs before any other task
MicrotaskPending == \E i \in 1..Len(requests) : requests[i].outcome # "pending"

\* the <video> element exists only while state = capturing; a new mount has no srcObject
Mounted(st, src) == IF st = "capturing" THEN src ELSE NoStream

TypeOK ==
  /\ state \in AppState
  /\ srcObject \in 0..Len(streams)
  /\ Len(streams) <= MaxStreams /\ Len(camPending) <= MaxCam
  /\ Len(reads) <= MaxReads /\ Len(requests) <= MaxReq

Init ==
  /\ state = "idle"
  /\ image = Null
  /\ analysis = JSNull
  /\ error = Null
  /\ srcObject = NoStream
  /\ streams = <<>>
  /\ camPending = <<>>
  /\ reads = <<>>
  /\ requests = <<>>

\* ---- helpers of the controller ----

StopCamera_Toggle(st, src, strs) ==
  IF st = "capturing" /\ src # NoStream
  THEN [strs EXCEPT ![src] = IF @ = "live" THEN "stopped" ELSE "live"]
  ELSE strs

\* stopCamera(): if (videoRef.current && videoRef.current.srcObject) stop every track
StopCamera(st, src, strs) ==
  IF st = "capturing" /\ src # NoStream THEN [strs EXCEPT ![src] = "stopped"] ELSE strs

\* a call of analyzeWaste made by processAnalysis(base64); a null argument throws at once
NewRequest(base64) ==
  [image |-> base64, reset |-> FALSE,
   outcome |-> IF base64 = Null THEN Rejected.outcome ELSE "pending",
   value |-> JSNull]

\* processAnalysis(base64) up to its await
ProcessAnalysis(base64) ==
  /\ Len(requests) < MaxReq
  /\ state' = "analyzing"
  /\ error' = Null
  /\ requests' = Append(requests, NewRequest(base64))

\* canvas.toDataURL after drawImage(video): a video without a stream has videoWidth = 0
CanvasDataUrl(src) == IF src # NoStream THEN FrameUrl ELSE EmptyCanvasUrl

MarkReset(s) == [i \in 1..Len(s) |-> [s[i] EXCEPT !.reset = TRUE]]
MarkSawStream(s) == [i \in 1..Len(s) |-> [s[i] EXCEPT !.sawStream = TRUE]]

\* ---- user actions ----

\* click on "Open Camera": startCamera up to await getUserMedia
StartCamera ==
  /\ ~MicrotaskPending
  /\ IdleVisible
  /\ Len(camPending) < MaxCam
  /\ state' = "capturing"
  /\ srcObject' = NoStream
  /\ camPending' = Append(camPending, [reset |-> FALSE, sawStream |-> FALSE])
  /\ UNCHANGED <<image, analysis, error, streams, reads, requests>>

\* change event of the file input with a file chosen
HandleFileUpload(file) ==
  /\ ~MicrotaskPending
  /\ IdleVisible
  /\ Len(reads) < MaxReads
  /\ reads' = Append(reads, file)
  /\ UNCHANGED <<state, image, analysis, error, srcObject, streams, camPending, requests>>

\* click on the shutter button of the viewfinder
CapturePhoto ==
  /\ ~MicrotaskPending
  /\ ViewfinderVisible
  /\ image' = CanvasDataUrl(srcObject)
  /\ streams' = StopCamera(state, srcObject, streams)
  /\ ProcessAnalysis(CanvasDataUrl(srcObject))
  /\ srcObject' = Mounted(state', srcObject)
  /\ UNCHANGED <<analysis, camPending, reads>>

Reset_KeepsError ==
  /\ ~MicrotaskPending
  /\ ResetOffered
  /\ streams' = StopCamera(state, srcObject, streams)
  /\ image' = Null
  /\ analysis' = JSNull
  /\ state' = "idle"
  /\ srcObject' = Mounted(state', srcObject)
  /\ camPending' = MarkReset(camPending)
  /\ requests' = MarkReset(requests)
  /\ UNCHANGED <<error, reads>>

\* click on a button wired to reset (cancel, "Scan New Item", "Try Again")
Reset ==
  /\ ~MicrotaskPending
  /\ ResetOffered
  /\ streams' = StopCamera(state, srcObject, streams)
  /\ image' = Null
  /\ analysis' = JSNull
  /\ error' = Null
  /\ state' = "idle"
  /\ srcObject' = Mounted(state', srcObject)
  /\ camPending' = MarkReset(camPending)
  /\ requests' = MarkReset(requests)
  /\ UNCHANGED reads

\* ---- completions ----

\* getUserMedia resolves: startCamera resumes after the await
CameraGrant(i) ==
  /\ ~MicrotaskPending
  /\ i \in 1..Len(camPending)
  /\ Len(streams) < MaxStreams
  /\ streams' = Append(streams, "live")
  /\ srcObject' = IF state = "capturing" THEN Len(streams) + 1 ELSE srcObject
  /\ camPending' = IF state = "capturing" THEN MarkSawStream(RemoveAt(camPending, i))
                   ELSE RemoveAt(camPending, i)
  /\ UNCHANGED <<state, image, analysis, error, reads, requests>>

\* getUserMedia rejects: the catch of startCamera
CameraDeny(i) ==
  /\ ~MicrotaskPending
  /\ i \in 1..Len(camPending)
  /\ error' = CameraError
  /\ state' = "error"
  /\ srcObject' = Mounted(state', srcObject)
  /\ camPending' = RemoveAt(camPending, i)
  /\ UNCHANGED <<image, analysis, streams, reads, requests>>

\* reader.onloadend: reader.result is the data URL, or null when the read failed
FileReadEnd(i, ok) ==
  /\ ~MicrotaskPending
  /\ i \in 1..Len(reads)
  /\ image' = (IF ok THEN DataUrl(reads[i]) ELSE Null)
  /\ ProcessAnalysis(IF ok THEN DataUrl(reads[i]) ELSE Null)
  /\ srcObject' = Mounted(state', srcObject)
  /\ reads' = RemoveAt(reads, i)
  /\ UNCHANGED <<analysis, streams, camPending>>

\* the service answers: the promise of analyzeWaste settles
ServiceRespond(i, resp) ==
  /\ ~MicrotaskPending
  /\ i \in 1..Len(requests)
  /\ requests[i].outcome = "pending"
  /\ requests' = [requests EXCEPT ![i] =
        [@ EXCEPT !.outcome = AnalyzeWaste(requests[i].image, resp).outcome,
                  !.value = AnalyzeWaste(requests[i].image, resp).value]]
  /\ UNCHANGED <<state, image, analysis, error, srcObject, streams, camPending, reads>>

\* processAnalysis resumes after await with a value
ProcessAnalysisThen(i) ==
  /\ i \in 1..Len(requests)
  /\ requests[i].outcome = "fulfilled"
  /\ analysis' = (IF requests[i].value.kind = "null" THEN JSNull
                  ELSE [requests[i].value EXCEPT !.of = requests[i].image])
  /\ state' = "result"
  /\ srcObject' = Mounted(state', srcObject)
  /\ requests' = RemoveAt(requests, i)
  /\ UNCHANGED <<image, error, streams, camPending, reads>>

ProcessAnalysisCatch_Retry(i) ==
  /\ i \in 1..Len(requests)
  /\ requests[i].outcome = "rejected"
  /\ requests[i].image # Null
  /\ error' = AnalysisError
  /\ state' = "error"
  /\ srcObject' = Mounted(state', srcObject)
  /\ requests' = [requests EXCEPT ![i] = NewRequest(requests[i].image)]
  /\ UNCHANGED <<image, analysis, streams, camPending, reads>>

ProcessAnalysisCatch_NoSetState(i) ==
  /\ i \in 1..Len(requests)
  /\ requests[i].outcome = "rejected"
  /\ error' = AnalysisError
  /\ requests' = RemoveAt(requests, i)
  /\ UNCHANGED <<state, image, analysis, srcObject, streams, camPending, reads>>

\* processAnalysis resumes after await with an exception
ProcessAnalysisCatch(i) ==
  /\ i \in 1..Len(requests)
  /\ requests[i].outcome = "rejected"
  /\ error' = AnalysisError
  /\ state' = "error"
  /\ srcObject' = Mounted(state', srcObject)
  /\ requests' = RemoveAt(requests, i)
  /\ UNCHANGED <<image, analysis, streams, camPending, reads>>

Next ==
  \/ StartCamera
  \/ \E file \in Files : HandleFileUpload(file)
  \/ CapturePhoto
  \/ Reset
  \/ \E i \in 1..MaxCam : CameraGrant(i)
  \/ \E i \in 1..MaxCam : CameraDeny(i)
  \/ \E i \in 1..MaxReads, ok \in BOOLEAN : FileReadEnd(i, ok)
  \/ \E i \in 1..MaxReq, resp \in Responses : ServiceRespond(i, resp)
  \/ \E i \in 1..MaxReq : ProcessAnalysisThen(i)
  \/ \E i \in 1..MaxReq : ProcessAnalysisCatch(i)

Spec == Init /\ [][Next]_vars

\* ---- steps, recognised from the two states of a transition ----
StateChanged == state' # state
FileReadStep == Len(reads') < Len(reads)
RequestStarted == Len(requests') > Len(requests)
Resumed(i) == requests[i].outcome # "pending" /\ requests' = RemoveAt(requests, i)

ListedTransitions ==
  {<<"idle", "capturing">>, <<"idle", "analyzing">>, <<"capturing", "idle">>,
   <<"capturing", "analyzing">>, <<"analyzing", "result">>, <<"analyzing", "error">>,
   <<"result", "idle">>, <<"error", "idle">>}

\* C1: the state variable changes only along the listed transitions (a file read never
\* moves capturing to analyzing), or by the denial of the camera request that opened
\* the current capturing state.
C1_OnlyListedTransitions ==
  [][StateChanged =>
       \/ <<state, state'>> \in ListedTransitions /\ ~(FileReadStep /\ state = "capturing")
       \/ \E i \in 1..Len(camPending) :
            CameraDeny(i) /\ ~camPending[i].reset /\ state = "capturing"]_vars

\* C2: in every state with state = error or state = result a button wired to reset is
\* rendered (and reset sets state to idle).
C2_ResetOfferedInErrorAndResult ==
  state \in {"error", "result"} => ResetOffered

\* C3: when processAnalysis resumes for a request that was started before a reset, it
\* changes none of state, analysis, error and image.
C3_StaleResponseDiscarded ==
  [][\A i \in 1..Len(requests) :
       Resumed(i) /\ requests[i].reset => UNCHANGED <<state, analysis, error, image>>]_vars

\* C4: a call of analyzeWaste is started only when no earlier call is still unsettled.
C4_SingleOutstandingRequest ==
  [][RequestStarted => \A i \in 1..Len(requests) : requests[i].outcome # "pending"]_vars

\* C5: outside capturing no granted stream has a track that was not stopped.
C5_StreamReleasedOutsideCapturing ==
  state # "capturing" => \A s \in 1..Len(streams) : streams[s] = "stopped"

\* C6: capturePhoto with no stream attached to the viewfinder changes none of state,
\* image, analysis and error and starts no request.
C6_CaptureWithoutFrameIsNoOp ==
  [][CapturePhoto /\ srcObject = NoStream =>
       UNCHANGED <<state, image, analysis, error, requests>>]_vars

\* the cases in which C7 says analyzeWaste rejects
MustReject(resp) ==
  \/ resp.net = "fail"
  \/ resp.text \in {NoText, ""}
  \/ ~ParseJSON(resp.text).ok
  \/ ~HasShape(ParseJSON(resp.text).value)

\* C7: analyzeWaste rejects exactly when the network call fails, there is no text, the
\* text does not parse or the parsed value lacks the WasteAnalysis shape; a returned
\* value has that shape.
C7_RejectsUnlessWellShaped ==
  [][\A i \in 1..Len(requests), resp \in Responses :
       ServiceRespond(i, resp) =>
         /\ (requests'[i].outcome = "rejected") <=> MustReject(resp)
         /\ requests'[i].outcome = "fulfilled" => HasShape(requests'[i].value)]_vars

\* C8: when processAnalysis resumes from a rejected call, state becomes error, the error
\* message is a non-empty string and analysis keeps its value.
C8_RejectLeadsToError ==
  [][\A i \in 1..Len(requests) :
       Resumed(i) /\ requests[i].outcome = "rejected" =>
         state' = "error" /\ Truthy(error') /\ analysis' = analysis]_vars

\* C8 witness: a rejected classification has been handled
C8_Witness ==
  /\ state = "error" /\ error = AnalysisError
  /\ requests = <<>> /\ Truthy(image)

\* C9: exactly the view of the active state is rendered, in every reachable state.
C9_ViewMatchesState ==
  /\ IdleVisible <=> state = "idle"
  /\ ViewfinderVisible <=> state = "capturing"
  /\ OverlayVisible <=> state = "analyzing"
  /\ ResultCardVisible <=> state = "result"
  /\ ErrorCardVisible <=> state = "error"

\* C10: a denied camera request ends with state = error and a non-empty message, and no
\* stream was attached to the viewfinder between its open-camera click and the denial.
C10_DenialWithoutVideo ==
  [][\A i \in 1..Len(camPending) :
       CameraDeny(i) =>
         state' = "error" /\ Truthy(error') /\ ~camPending[i].sawStream]_vars

\* C11: reset taken from result or from error leaves image, analysis and error null and
\* state idle, the values of the initial state.
C11_ResetRestoresInitial ==
  [][Reset /\ state \in {"result", "error"} =>
       image' = Null /\ analysis' = JSNull /\ error' = Null /\ state' = "idle"]_vars

\* C11 witness: the error card with its message and image is shown and reset can be taken
C11_Witness ==
  /\ ErrorCardVisible /\ ~MicrotaskPending
  /\ error = AnalysisError /\ image = FrameUrl

\* C12: a step starts at most one analyzeWaste call and only as part of a capture or of
\* the end of a file read; resuming from a rejected call removes it and starts none.
C12_NoAutomaticRetry ==
  [][/\ RequestStarted =>
          /\ Len(requests') = Len(requests) + 1
          /\ CapturePhoto \/ \E i \in 1..Len(reads), ok \in BOOLEAN : FileReadEnd(i, ok)
     /\ \A i \in 1..Len(requests) :
          requests[i].outcome = "rejected" => requests' = RemoveAt(requests, i)]_vars

\* C12 witness: a classification failed and nothing is pending any more
C12_Witness ==
  /\ state = "error" /\ error = AnalysisError
  /\ requests = <<>> /\ reads = <<>> /\ camPending = <<>>

\* C13: stopCamera without an attached stream changes nothing, and calling it twice
\* leaves the streams as calling it once does.
C13_StopCameraIdempotent ==
  /\ (state # "capturing" \/ srcObject = NoStream) =>
        StopCamera(state, srcObject, streams) = streams
  /\ StopCamera(state, srcObject, StopCamera(state, srcObject, streams))
        = StopCamera(state, srcObject, streams)
  /\ \A s \in 1..Len(StopCamera(state, srcObject, streams)) :
        s = srcObject /\ state = "capturing" =>
          StopCamera(state, srcObject, streams)[s] = "stopped"

\* C13 witness: a live stream is attached to the mounted viewfinder
C13_Witness ==
  state = "capturing" /\ srcObject # NoStream /\ streams[srcObject] = "live"

\* C14: when processAnalysis resumes, image is unchanged, non-null and the image that
\* was submitted with that call; image does not change while state stays result or error.
C14_ImageKeptUntilReset ==
  [][/\ \A i \in 1..Len(requests) :
          Resumed(i) => image' = image /\ image' = requests[i].image /\ image' # Null
     /\ state \in {"result", "error"} /\ state' \in {"result", "error"} =>
          image' = image /\ image # Null]_vars

\* every classification call settles and its continuation runs
Settle ==
  \/ \E i \in 1..MaxReq, resp \in Responses : ServiceRespond(i, resp)
  \/ \E i \in 1..MaxReq : ProcessAnalysisThen(i)
  \/ \E i \in 1..MaxReq : ProcessAnalysisCatch(i)

FairSpec == Init /\ [][Next]_vars /\ WF_vars(Settle)

\* C15: if every classification call settles, state = analyzing is eventually followed
\* by state = result or state = error.
C15_AnalyzingEnds ==
  (state = "analyzing") ~> (state \in {"result", "error"})

\* C15 witness: analyzing with its single call outstanding
C15_Witness ==
  state = "analyzing" /\ Len(requests) = 1 /\ requests[1].outcome = "pending"

\* C16: result implies analysis is not null and error is null; error implies a non-empty
\* error message; idle and capturing imply image and analysis are null.
C16_DataConsistentWithState ==
  /\ state = "result" => analysis # JSNull /\ error = Null
  /\ state = "error" => Truthy(error)
  /\ state \in {"idle", "capturing"} => image = Null /\ analysis = JSNull

\* C17: when the result card is shown, analysis came from the call that was started
\* with the image that is shown.
C17_ResultBelongsToImage ==
  ResultCardVisible => analysis.of = image
====
